---- MODULE Spec2Model ----
(***************************************************************************)
(* Model of src/attrs.rs (cosmic-text): Color, Attrs / AttrsOwned and      *)
(* AttrsList.  AttrsList keeps its spans in a rangemap::RangeMap, a        *)
(* BTreeMap keyed by range start; the RangeMap operations AttrsList calls  *)
(* (insert, remove, get, get_key_value, iter, clear) are modelled by what  *)
(* the rangemap crate does, including its coalescing of touching ranges    *)
(* that carry equal values.                                                *)
(***************************************************************************)
EXTENDS Integers, Sequences, FiniteSets, TLC

\* ------------------------------------------------------------------ bounds

\* Range bounds passed to add_span are drawn from 0..MaxOff.
MaxOff == 4

\* Colour channels are drawn from the ChanEdge+1 lowest and highest bytes
\* (and the alternating bit patterns).
ChanEdge == 1

\* The metadata of the attribute sets handed to compatible is drawn from
\* 0..MaxMeta.
MaxMeta == 1

\* ------------------------------------------------------------- small helpers

\* A usize is modelled by its bits read as a signed integer: n >= 0 is n and
\* n < 0 is 2^64 + n, so that -1 is usize::MAX. The orders on usize:
ULt(a, b) == IF (a < 0) = (b < 0) THEN a < b ELSE b < 0

ULe(a, b) == ~ULt(b, a)

Min(a, b) == IF ULt(b, a) THEN b ELSE a

Max(a, b) == IF ULt(a, b) THEN b ELSE a

\* Option<T> is a sequence of length 0 (None) or 1 (Some(x)).
None == << >>

Some(x) == << x >>

\* ------------------------------------------------------------------- Color
\* Color(pub u32): the u32 is a function from bit position to bit.

Bits32 == 0 .. 31

Pow2(n) == 2 ^ n

\* `x as u32` for x : u8
U8AsU32(x) == [i \in Bits32 |-> IF i < 8 THEN (x \div Pow2(i)) % 2 ELSE 0]

\* `w as u8` for w : u32 (keeps the low 8 bits)
U32AsU8(w) ==
    w[0] + 2 * w[1] + 4 * w[2] + 8 * w[3]
    + 16 * w[4] + 32 * w[5] + 64 * w[6] + 128 * w[7]

Shl(w, n) == [i \in Bits32 |-> IF i >= n THEN w[i - n] ELSE 0]

Shr(w, n) == [i \in Bits32 |-> IF i + n <= 31 THEN w[i + n] ELSE 0]

BitOr(v, w) == [i \in Bits32 |-> IF v[i] = 1 \/ w[i] = 1 THEN 1 ELSE 0]

BitAnd(v, w) == [i \in Bits32 |-> IF v[i] = 1 /\ w[i] = 1 THEN 1 ELSE 0]

\* The literal 0xb3_b2_b1_b0
Hex32(b3, b2, b1, b0) ==
    BitOr(BitOr(Shl(U8AsU32(b3), 24), Shl(U8AsU32(b2), 16)),
          BitOr(Shl(U8AsU32(b1), 8), U8AsU32(b0)))

\* rgba packing the channels in the order r, g, b, a
rgba_wrong_layout(r, g, b, a) ==
    BitOr(BitOr(Shl(U8AsU32(r), 24), Shl(U8AsU32(g), 16)),
          BitOr(Shl(U8AsU32(b), 8), U8AsU32(a)))

rgba(r, g, b, a) ==
    BitOr(BitOr(BitOr(Shl(U8AsU32(a), 24), Shl(U8AsU32(r), 16)),
                Shl(U8AsU32(g), 8)),
          U8AsU32(b))

rgb(r, g, b) == rgba(r, g, b, 255)

color_r(c) == U32AsU8(Shr(BitAnd(c, Hex32(0, 255, 0, 0)), 16))

color_g(c) == U32AsU8(Shr(BitAnd(c, Hex32(0, 0, 255, 0)), 8))

color_b(c) == U32AsU8(BitAnd(c, Hex32(0, 0, 0, 255)))

color_a(c) == U32AsU8(Shr(BitAnd(c, Hex32(255, 0, 0, 0)), 24))

\* ------------------------------------------------------- Attrs / AttrsOwned

\* Family<'a> / FamilyOwned: a kind and, for Name, the name.
FamilySansSerif == [kind |-> "SansSerif", name |-> ""]

FamilyOwnedNew(family) ==
    CASE family.kind = "Name" -> [kind |-> "Name", name |-> family.name]
      [] family.kind = "Serif" -> [kind |-> "Serif", name |-> ""]
      [] family.kind = "SansSerif" -> [kind |-> "SansSerif", name |-> ""]
      [] family.kind = "Cursive" -> [kind |-> "Cursive", name |-> ""]
      [] family.kind = "Fantasy" -> [kind |-> "Fantasy", name |-> ""]
      [] family.kind = "Monospace" -> [kind |-> "Monospace", name |-> ""]

as_family(owned) ==
    CASE owned.kind = "Name" -> [kind |-> "Name", name |-> owned.name]
      [] owned.kind = "Serif" -> [kind |-> "Serif", name |-> ""]
      [] owned.kind = "SansSerif" -> [kind |-> "SansSerif", name |-> ""]
      [] owned.kind = "Cursive" -> [kind |-> "Cursive", name |-> ""]
      [] owned.kind = "Fantasy" -> [kind |-> "Fantasy", name |-> ""]
      [] owned.kind = "Monospace" -> [kind |-> "Monospace", name |-> ""]

\* Weight::NORMAL
WeightNormal == 400

\* The bit pattern of 1.0f32 (0x3F800000); scaling is kept as its bits, read
\* as i32.
ScalingOne == 1065353216

\* Attrs::new()
AttrsNew ==
    [color_opt |-> None, family |-> FamilySansSerif, stretch |-> "Normal",
     style |-> "Normal", weight |-> WeightNormal, scaling |-> ScalingOne,
     metadata |-> 0]

\* Attrs::style(self, style)
AttrsStyle(attrs, style) == [attrs EXCEPT !.style = style]

\* Attrs::weight(self, weight)
AttrsWeight(attrs, weight) == [attrs EXCEPT !.weight = weight]

\* Attrs::metadata(self, metadata)
AttrsMetadata(attrs, metadata) == [attrs EXCEPT !.metadata = metadata]

\* AttrsOwned::new(attrs)
AttrsOwnedNew(attrs) ==
    [color_opt |-> attrs.color_opt,
     family_owned |-> FamilyOwnedNew(attrs.family),
     stretch |-> attrs.stretch, style |-> attrs.style,
     weight |-> attrs.weight, scaling |-> attrs.scaling,
     metadata |-> attrs.metadata]

\* AttrsOwned::as_attrs(&self)
as_attrs(owned) ==
    [color_opt |-> owned.color_opt,
     family |-> as_family(owned.family_owned),
     stretch |-> owned.stretch, style |-> owned.style,
     weight |-> owned.weight, scaling |-> owned.scaling,
     metadata |-> owned.metadata]

\* The scaling factors in this model, as f32::to_bits() as i32: 1.0, 0.0,
\* -0.0 (0x80000000), NaN (0x7FC00000) and 2.0
ScalingPool == {ScalingOne, 0, (-2147483647) - 1, 2143289344, 1073741824}

\* f32::total_cmp: the key compared, the bits as i32 with the low 31 bits
\* flipped when the sign bit is set
TotalCmpKey(bits) ==
    IF bits < 0 THEN (((-1) - bits) + (-2147483647)) - 1 ELSE bits

\* f32::total_cmp(x, y)
TotalCmp(x, y) ==
    IF TotalCmpKey(x) < TotalCmpKey(y) THEN "Less"
    ELSE IF TotalCmpKey(x) > TotalCmpKey(y) THEN "Greater"
    ELSE "Equal"

\* Ordering::is_eq
IsEq(ordering) == ordering = "Equal"

\* impl PartialEq for AttrsOwned
AttrsOwnedEq(x, y) ==
    /\ x.color_opt = y.color_opt
    /\ x.family_owned = y.family_owned
    /\ x.stretch = y.stretch
    /\ x.style = y.style
    /\ x.weight = y.weight
    /\ IsEq(TotalCmp(x.scaling, y.scaling))
    /\ x.metadata = y.metadata

\* impl PartialEq for Attrs
AttrsEq(x, y) ==
    /\ x.color_opt = y.color_opt
    /\ x.family = y.family
    /\ x.stretch = y.stretch
    /\ x.style = y.style
    /\ x.weight = y.weight
    /\ IsEq(TotalCmp(x.scaling, y.scaling))
    /\ x.metadata = y.metadata

\* compatible comparing the attribute sets with ==
compatible_eq(self, other) == AttrsEq(self, other)

\* Attrs::compatible
compatible(self, other) ==
    /\ self.family = other.family
    /\ self.stretch = other.stretch
    /\ self.style = other.style
    /\ self.weight = other.weight
    /\ IsEq(TotalCmp(self.scaling, other.scaling))

\* The attribute sets callers pass to add_span in this model.
AttrsPool == {AttrsNew, AttrsStyle(AttrsNew, "Italic")}

\* The attribute sets callers pass to AttrsList::new in this model: one that
\* spans also carry, one that no span carries.
DefaultsPool == {AttrsNew, AttrsMetadata(AttrsNew, 1)}

\* ------------------------------------------------- rangemap::RangeMap<usize, V>
\* The map is a BTreeMap keyed by range start: a set of entries
\* [start, end, attrs] with at most one entry per start.

Range(s, e) == [start |-> s, end |-> e]

Entry(r, v) == [start |-> r.start, end |-> r.end, attrs |-> v]

KeyOf(e) == Range(e.start, e.end)

\* RangeExt::overlaps
Overlaps(a, b) == ULt(Max(a.start, b.start), Min(a.end, b.end))

\* RangeExt::touches
Touches(a, b) == ULe(Max(a.start, b.start), Min(a.end, b.end))

\* BTreeMap::insert / BTreeMap::remove, the keys compared by start: insert on
\* a start that is stored keeps the stored key and updates its value
BtmInsert(btm, e) ==
    IF \E x \in btm : x.start = e.start
    THEN {IF x.start = e.start THEN [x EXCEPT !.attrs = e.attrs] ELSE x : x \in btm}
    ELSE btm \cup {e}

BtmRemove(btm, start) == {x \in btm : x.start # start}

\* first / last entry of a non-empty part of the map, in key order
BtmFirst(S) == CHOOSE x \in S : \A y \in S : ULe(x.start, y.start)

BtmLast(S) == CHOOSE x \in S : \A y \in S : ULe(y.start, x.start)

\* RangeMap::iter: the entries in ascending order of start
RECURSIVE RangeMapIter(_)
RangeMapIter(btm) ==
    IF btm = {} THEN << >>
    ELSE LET f == BtmFirst(btm) IN << f >> \o RangeMapIter(btm \ {f})

\* the piece of a stored range left of / right of range r, kept if non-empty
KeepLeft(btm, stored, r) ==
    IF ULt(stored.start, r.start)
    THEN BtmInsert(btm, Entry(Range(stored.start, r.start), stored.attrs))
    ELSE btm

KeepRight(btm, stored, r) ==
    IF ULt(r.end, stored.end)
    THEN BtmInsert(btm, Entry(Range(r.end, stored.end), stored.attrs))
    ELSE btm

\* RangeMap::adjust_touching_ranges_for_insert: the map and the (possibly
\* expanded) range to insert
AdjustTouchingRangesForInsert(btm, stored, nr, nv) ==
    IF AttrsOwnedEq(stored.attrs, nv)
    THEN [btm |-> BtmRemove(btm, stored.start),
          range |-> Range(Min(nr.start, stored.start), Max(nr.end, stored.end))]
    ELSE IF Overlaps(nr, stored)
    THEN [btm |-> KeepRight(KeepLeft(BtmRemove(btm, stored.start), stored, nr),
                            stored, nr),
          range |-> nr]
    ELSE [btm |-> btm, range |-> nr]

\* the last (up to) two entries of a part of the map, last first:
\* `.rev().take(2)`
LastTwo(S) ==
    IF S = {} THEN << >>
    ELSE IF Cardinality(S) = 1 THEN << BtmLast(S) >>
    ELSE << BtmLast(S), BtmLast(S \ {BtmLast(S)}) >>

\* of the candidates that touch the range to insert, the first, "or the one
\* before it if both cases exist"
InsertHeadPick(btm, cands, nr, nv) ==
    IF cands = << >> THEN [btm |-> btm, range |-> nr]
    ELSE AdjustTouchingRangesForInsert(btm, cands[Len(cands)], nr, nv)

\* RangeMap::insert, first part: the stored range overlapping the start of
\* the range to insert or immediately preceding it
InsertHead(btm, nr, nv) ==
    InsertHeadPick(
        btm,
        SelectSeq(LastTwo({x \in btm : ULe(x.start, nr.start)}),
                  LAMBDA x : Touches(x, nr)),
        nr, nv)

\* RangeMap::insert, second part: the stored ranges whose heads overlap or
\* immediately follow the range to insert
RECURSIVE InsertLoop(_, _, _, _)
InsertLoopOn(btm, stored, nr, nv, endBound) ==
    IF stored.start = nr.end /\ ~AttrsOwnedEq(stored.attrs, nv)
    THEN [btm |-> btm, range |-> nr]
    ELSE InsertLoop(AdjustTouchingRangesForInsert(btm, stored, nr, nv).btm,
                    AdjustTouchingRangesForInsert(btm, stored, nr, nv).range,
                    nv, endBound)

InsertLoopIn(btm, within, nr, nv, endBound) ==
    IF within = {} THEN [btm |-> btm, range |-> nr]
    ELSE InsertLoopOn(btm, BtmFirst(within), nr, nv, endBound)

InsertLoop(btm, nr, nv, endBound) ==
    InsertLoopIn(btm, {x \in btm : ULe(nr.start, x.start) /\ ULe(x.start, endBound)},
                 nr, nv, endBound)

InsertTail(h, nv) == InsertLoop(h.btm, h.range, nv, h.range.end)

InsertFinish(l, nv) ==
    [panic |-> FALSE, btm |-> BtmInsert(l.btm, Entry(l.range, nv))]

\* RangeMap::insert: asserts range.start < range.end
RangeMapInsert(btm, range, value) ==
    IF ~ULt(range.start, range.end) THEN [panic |-> TRUE, btm |-> btm]
    ELSE InsertFinish(InsertTail(InsertHead(btm, range, value), value), value)

\* RangeMap::adjust_overlapping_ranges_for_remove
AdjustOverlappingRangesForRemove(btm, stored, rr) ==
    KeepRight(KeepLeft(BtmRemove(btm, stored.start), stored, rr), stored, rr)

\* RangeMap::remove, first part: the stored range overlapping the start of
\* the range to remove
RemoveHeadOn(btm, c, rr) ==
    IF Overlaps(c, rr) THEN AdjustOverlappingRangesForRemove(btm, c, rr) ELSE btm

RemoveHeadIn(btm, below, rr) ==
    IF below = {} THEN btm ELSE RemoveHeadOn(btm, BtmLast(below), rr)

RemoveHead(btm, rr) ==
    RemoveHeadIn(btm, {x \in btm : ULe(x.start, rr.start)}, rr)

\* RangeMap::remove, second part: the stored ranges whose heads overlap the
\* range to remove
RECURSIVE RemoveLoop(_, _)
RemoveLoopIn(btm, within, rr) ==
    IF within = {} THEN btm
    ELSE RemoveLoop(
             AdjustOverlappingRangesForRemove(btm, BtmFirst(within), rr), rr)

RemoveLoop(btm, rr) ==
    RemoveLoopIn(btm, {x \in btm : ULt(rr.start, x.start) /\ ULt(x.start, rr.end)}, rr)

\* RangeMap::remove: asserts range.start < range.end
RangeMapRemove(btm, range) ==
    IF ~ULt(range.start, range.end) THEN [panic |-> TRUE, btm |-> btm]
    ELSE [panic |-> FALSE, btm |-> RemoveLoop(RemoveHead(btm, range), range)]

\* RangeMap::get_key_value: the entry whose range contains key
RangeMapGetKeyValue(btm, key) ==
    LET below == {x \in btm : ULe(x.start, key)}
    IN  IF below = {} THEN None
        ELSE LET c == BtmLast(below)
             IN  IF ULe(c.start, key) /\ ULt(key, c.end) THEN Some(c) ELSE None

\* RangeMap::get
RangeMapGet(btm, key) ==
    LET kv == RangeMapGetKeyValue(btm, key)
    IN  IF kv = None THEN None ELSE Some(kv[1].attrs)

\* ---------------------------------------------------------------- AttrsList

\* AttrsList::new
AttrsListNew(defaults) == [defaults |-> AttrsOwnedNew(defaults), spans |-> {}]

\* AttrsList::defaults
defaults(l) == as_attrs(l.defaults)

\* spans listing the entries from the last to the first
spans_rev(l) ==
    LET it == RangeMapIter(l.spans)
    IN  [k \in 1 .. Len(it) |->
            [range |-> KeyOf(it[Len(it) + 1 - k]), attrs |-> it[Len(it) + 1 - k].attrs]]

\* AttrsList::spans: the (range, attrs) pairs in ascending order of start
spans(l) ==
    LET it == RangeMapIter(l.spans)
    IN  [k \in 1 .. Len(it) |-> [range |-> KeyOf(it[k]), attrs |-> it[k].attrs]]

\* clear_spans replacing the list by a new list with Attrs::new() defaults
clear_spans_reset(l) == AttrsListNew(AttrsNew)

\* AttrsList::clear_spans
clear_spans(l) == [l EXCEPT !.spans = {}]

\* add_span storing the span with a plain BTreeMap insert
add_span_plain(l, range, attrs) ==
    IF range.start = range.end THEN [panic |-> FALSE, list |-> l]
    ELSE [panic |-> FALSE,
          list |-> [l EXCEPT !.spans =
                       BtmInsert(l.spans, Entry(range, AttrsOwnedNew(attrs)))]]

\* add_span clearing the range and storing the span as its own entry,
\* merging it with no neighbour
add_span_own_entry(l, range, attrs) ==
    IF range.start = range.end THEN [panic |-> FALSE, list |-> l]
    ELSE IF ULt(range.end, range.start) THEN [panic |-> TRUE, list |-> l]
    ELSE [panic |-> FALSE,
          list |-> [l EXCEPT !.spans =
                       BtmInsert(RangeMapRemove(l.spans, range).btm,
                                 Entry(range, AttrsOwnedNew(attrs)))]]

\* add_span dropping the spans stored before
add_span_clear_first(l, range, attrs) ==
    IF range.start = range.end THEN [panic |-> FALSE, list |-> l]
    ELSE LET r == RangeMapInsert({}, range, AttrsOwnedNew(attrs))
         IN  [panic |-> r.panic,
              list |-> [l EXCEPT !.spans = IF r.panic THEN l.spans ELSE r.btm]]

\* add_span without the early return for an empty range
add_span_no_return(l, range, attrs) ==
    LET r == RangeMapInsert(l.spans, range, AttrsOwnedNew(attrs))
    IN  [panic |-> r.panic, list |-> [l EXCEPT !.spans = r.btm]]

\* AttrsList::add_span: the list afterwards, and whether the call panicked
add_span(l, range, attrs) ==
    IF range.start = range.end THEN [panic |-> FALSE, list |-> l]
    ELSE LET r == RangeMapInsert(l.spans, range, AttrsOwnedNew(attrs))
         IN  [panic |-> r.panic, list |-> [l EXCEPT !.spans = r.btm]]

\* get_span taking a span's end as part of the span
get_span_end_inclusive(l, index) ==
    LET hit == {x \in l.spans : ULe(x.start, index) /\ ULe(index, x.end)}
    IN  IF hit = {} THEN as_attrs(l.defaults) ELSE as_attrs(BtmLast(hit).attrs)

\* AttrsList::get_span
get_span(l, index) ==
    LET g == RangeMapGet(l.spans, index)
    IN  IF g = None THEN as_attrs(l.defaults) ELSE as_attrs(g[1])

\* the first loop skipping only the spans that end strictly below index
SplitRemoves_end_lt(l, index) ==
    LET it == RangeMapIter(l.spans)
        hit == SelectSeq(it, LAMBDA span : ~ULt(span.end, index))
    IN  [k \in 1 .. Len(hit) |->
            [key |-> KeyOf(hit[k]), resize |-> ~ULe(index, hit[k].start)]]

\* the first loop with the resize flags of its two branches exchanged
SplitRemoves_flags_swapped(l, index) ==
    LET it == RangeMapIter(l.spans)
        hit == SelectSeq(it, LAMBDA span : ~ULe(span.end, index))
    IN  [k \in 1 .. Len(hit) |->
            [key |-> KeyOf(hit[k]), resize |-> ULe(index, hit[k].start)]]

\* AttrsList::split_off, first loop: the keys to remove or fix
SplitRemoves(l, index) ==
    LET it == RangeMapIter(l.spans)
        hit == SelectSeq(it, LAMBDA span : ~ULe(span.end, index))
    IN  [k \in 1 .. Len(hit) |->
            [key |-> KeyOf(hit[k]), resize |-> ~ULe(index, hit[k].start)]]

SplitResult(panic, selfSpans, newSpans) ==
    [panic |-> panic, self |-> selfSpans, new |-> newSpans]

\* a - b on usize. The build decides what a < b does: with overflow checks
\* (debug) the subtraction panics, without (release) it wraps, which in the
\* signed reading of the bits is the plain difference.
SubOverflows(checks, a, b) == checks /\ ULt(a, b)

WrappingSub(a, b) == a - b

\* the resize branch without the insert of the left part into self
SplitResize_drop_left(checks, selfSpans, newSpans, range, attrs, index) ==
    IF SubOverflows(checks, range.end, index)
    THEN SplitResult("attempt to subtract with overflow", selfSpans, newSpans)
    ELSE LET n1 == RangeMapInsert(
                       newSpans, Range(0, WrappingSub(range.end, index)), attrs)
         IN  SplitResult(IF n1.panic THEN "empty range" ELSE "none",
                         selfSpans, n1.btm)

\* AttrsList::split_off, the resize branch of the second loop: the right
\* part goes to the new list, the left part back into self
SplitResize(checks, selfSpans, newSpans, range, attrs, index) ==
    IF SubOverflows(checks, range.end, index)
    THEN SplitResult("attempt to subtract with overflow", selfSpans, newSpans)
    ELSE LET n1 == RangeMapInsert(
                       newSpans, Range(0, WrappingSub(range.end, index)), attrs)
         IN  IF n1.panic THEN SplitResult("empty range", selfSpans, newSpans)
             ELSE LET s1 == RangeMapInsert(selfSpans, Range(range.start, index), attrs)
                  IN  SplitResult(IF s1.panic THEN "empty range" ELSE "none",
                                  s1.btm, n1.btm)

\* the other branch moving the span without renumbering it
SplitMove_no_shift(checks, selfSpans, newSpans, range, attrs, index) ==
    LET n1 == RangeMapInsert(newSpans, Range(range.start, range.end), attrs)
    IN  SplitResult(IF n1.panic THEN "empty range" ELSE "none", selfSpans, n1.btm)

\* AttrsList::split_off, the other branch: the span moves to the new list
SplitMove(checks, selfSpans, newSpans, range, attrs, index) ==
    IF SubOverflows(checks, range.start, index) \/ SubOverflows(checks, range.end, index)
    THEN SplitResult("attempt to subtract with overflow", selfSpans, newSpans)
    ELSE LET n1 == RangeMapInsert(
                       newSpans,
                       Range(WrappingSub(range.start, index),
                             WrappingSub(range.end, index)),
                       attrs)
         IN  SplitResult(IF n1.panic THEN "empty range" ELSE "none",
                         selfSpans, n1.btm)

\* one pass of the second loop without self.spans.remove(key)
SplitFound_no_remove(checks, selfSpans, newSpans, remove, found, index) ==
    IF remove.resize
    THEN SplitResize(checks, selfSpans, newSpans, KeyOf(found), found.attrs, index)
    ELSE SplitMove(checks, selfSpans, newSpans, KeyOf(found), found.attrs, index)

\* AttrsList::split_off, one pass of the second loop, with the entry found
\* at key.start
SplitFound(checks, selfSpans, newSpans, remove, found, index) ==
    LET rem == RangeMapRemove(selfSpans, remove.key)
    IN  IF rem.panic THEN SplitResult("empty range", selfSpans, newSpans)
        ELSE IF remove.resize
        THEN SplitResize(checks, rem.btm, newSpans, KeyOf(found), found.attrs, index)
        ELSE SplitMove(checks, rem.btm, newSpans, KeyOf(found), found.attrs, index)

\* AttrsList::split_off, one pass of the second loop
SplitStep(checks, selfSpans, newSpans, remove, index) ==
    LET kv == RangeMapGetKeyValue(selfSpans, remove.key.start)
    IN  IF kv = None
        THEN SplitResult("attrs span not found", selfSpans, newSpans)
        ELSE SplitFound(checks, selfSpans, newSpans, remove, kv[1], index)

\* AttrsList::split_off, second loop over the collected keys
RECURSIVE SplitLoop(_, _, _, _, _)
SplitLoop(checks, selfSpans, newSpans, removes, index) ==
    IF removes = << >> THEN SplitResult("none", selfSpans, newSpans)
    ELSE LET r == SplitStep(checks, selfSpans, newSpans, removes[1], index)
         IN  IF r.panic # "none" THEN r
             ELSE SplitLoop(checks, r.self, r.new, Tail(removes), index)

\* split_off creating the returned list with Attrs::new() defaults
split_off_fresh_defaults(checks, l, index) ==
    LET new0 == AttrsListNew(AttrsNew)
        r == SplitLoop(checks, l.spans, new0.spans, SplitRemoves(l, index), index)
    IN  [panic |-> r.panic,
         self |-> [l EXCEPT !.spans = r.self],
         new |-> [new0 EXCEPT !.spans = r.new]]

\* AttrsList::split_off in a build with (checks) or without overflow checks:
\* self afterwards, the returned list, and the panic the call ended in
\* ("none" when it returned)
split_off(checks, l, index) ==
    LET new0 == AttrsListNew(as_attrs(l.defaults))
        r == SplitLoop(checks, l.spans, new0.spans, SplitRemoves(l, index), index)
    IN  [panic |-> r.panic,
         self |-> [l EXCEPT !.spans = r.self],
         new |-> [new0 EXCEPT !.spans = r.new]]

\* ------------------------------------------------------------ state machine

VARIABLES
    list,       \* the AttrsList the caller operates on
    new,        \* Some(list returned by the split_off just made), else None
    pre,        \* list as it was before the last call
    last,       \* the last call: op, its arguments, and the panic it ended in
    written,    \* per offset, Some(attrs of the latest add_span covering it)
    addsOnly,   \* no call other than add_span was made since AttrsList::new
    colorCall,  \* the Color constructor call under check and its arguments
    color,      \* Some(Color the constructor returned), None before the call
    fnCall,     \* the function applied on its own and its arguments
    fnResult    \* Some(what the function returned), None before the call

vars ==
    << list, new, pre, last, written, addsOnly, colorCall, color, fnCall, fnResult >>

listVars == << list, new, pre, last, written, addsOnly >>

colorVars == << colorCall, color >>

fnVars == << fnCall, fnResult >>

\* the variables of the Color and function applications, which the calls on
\* the list leave alone
applyVars == << colorCall, color, fnCall, fnResult >>

Offsets == 0 .. MaxOff

\* split_off is also called with an index above every range bound
Indexes == 0 .. MaxOff + 1

Call(op, range, attrs, index, panic) ==
    [op |-> op, range |-> range, attrs |-> attrs, index |-> index, panic |-> panic]

NoColorCall == [fn |-> "none", r |-> 0, g |-> 0, b |-> 0, a |-> 0]

NoFnCall == [fn |-> "none"]

ListInit(ds) ==
    /\ list \in {AttrsListNew(d) : d \in ds}
    /\ pre = list
    /\ last = Call("new", Range(0, 0), defaults(list), 0, "none")
    /\ new = None
    /\ written = [i \in Offsets |-> None]
    /\ addsOnly = TRUE

Init ==
    /\ ListInit(DefaultsPool)
    /\ colorCall = NoColorCall
    /\ color = None
    /\ fnCall = NoFnCall
    /\ fnResult = None

\* a panic unwinds the caller: no call follows it
Alive == last.panic = "none"

AddSpan ==
    /\ Alive
    /\ \E s \in Offsets, e \in Offsets, a \in AttrsPool :
          LET r == add_span(list, Range(s, e), a)
          IN  /\ list' = r.list
              /\ last' = Call("add_span", Range(s, e), a, 0,
                              IF r.panic THEN "range start >= end" ELSE "none")
              /\ written' = IF r.panic \/ ~addsOnly THEN written
                            ELSE [i \in Offsets |->
                                    IF s <= i /\ i < e THEN Some(a) ELSE written[i]]
    /\ pre' = list
    /\ new' = None
    /\ UNCHANGED << addsOnly, applyVars >>

ClearSpans ==
    /\ Alive
    /\ list' = clear_spans(list)
    /\ pre' = list
    /\ last' = Call("clear_spans", Range(0, 0), defaults(list), 0, "none")
    /\ new' = None
    /\ written' = [i \in Offsets |-> None]
    /\ addsOnly' = FALSE
    /\ UNCHANGED applyVars

SplitOff ==
    /\ Alive
    /\ \E index \in Indexes, checks \in BOOLEAN :
          LET r == split_off(checks, list, index)
          IN  /\ list' = r.self
              /\ new' = IF r.panic = "none" THEN Some(r.new) ELSE None
              /\ last' = Call("split_off", Range(0, 0), defaults(list), index, r.panic)
    /\ pre' = list
    /\ written' = [i \in Offsets |-> None]
    /\ addsOnly' = FALSE
    /\ UNCHANGED applyVars

\* the caller goes on with the list split_off returned
AdoptNew ==
    /\ Alive
    /\ new # None
    /\ list' = new[1]
    /\ pre' = new[1]
    /\ last' = Call("adopt", Range(0, 0), defaults(new[1]), 0, "none")
    /\ new' = None
    /\ UNCHANGED << written, addsOnly, applyVars >>

Next == AddSpan \/ ClearSpans \/ SplitOff \/ AdoptNew

Spec == Init /\ [][Next]_vars

\* ----------------------------------------------- Color constructors, applied

Chans == (0 .. ChanEdge) \cup ((255 - ChanEdge) .. 255) \cup {85, 127, 128, 170}

ColorInit ==
    /\ ListInit({AttrsNew})
    /\ colorCall \in
          [fn : {"rgba"}, r : Chans, g : Chans, b : Chans, a : Chans]
          \cup [fn : {"rgb"}, r : Chans, g : Chans, b : Chans, a : {0}]
    /\ color = None
    /\ fnCall = NoFnCall
    /\ fnResult = None

Rgba ==
    /\ colorCall.fn = "rgba"
    /\ color = None
    /\ color' = Some(rgba(colorCall.r, colorCall.g, colorCall.b, colorCall.a))
    /\ UNCHANGED << colorCall, listVars, fnVars >>

Rgb ==
    /\ colorCall.fn = "rgb"
    /\ color = None
    /\ color' = Some(rgb(colorCall.r, colorCall.g, colorCall.b))
    /\ UNCHANGED << colorCall, listVars, fnVars >>

ColorNext == Rgba \/ Rgb

ColorSpec == ColorInit /\ [][ColorNext]_vars

\* ------------------------------------------------- Attrs::compatible, applied

\* the attribute sets handed to compatible
AttrsAll ==
    [color_opt : {None, Some(rgb(255, 0, 0))},
     family : {FamilySansSerif, [kind |-> "Name", name |-> "Fira Mono"]},
     stretch : {"Normal", "Condensed"},
     style : {"Normal", "Italic"},
     weight : {WeightNormal, 700},
     scaling : ScalingPool,
     metadata : 0 .. MaxMeta]

CompatInit ==
    /\ ListInit({AttrsNew})
    /\ colorCall = NoColorCall
    /\ color = None
    /\ fnCall \in [fn : {"compatible"}, self : AttrsAll, other : AttrsAll]
    /\ fnResult = None

Compatible ==
    /\ fnCall.fn = "compatible"
    /\ fnResult = None
    /\ fnResult' = Some(compatible(fnCall.self, fnCall.other))
    /\ UNCHANGED << fnCall, listVars, colorVars >>

CompatNext == Compatible

CompatSpec == CompatInit /\ [][CompatNext]_vars

\* ------------------------------------------------- lists a caller can build

\* per offset below MaxOff, None or Some(attrs) to give that offset
Paints == [0 .. MaxOff - 1 -> {None} \cup {Some(a) : a \in AttrsPool}]

\* the list after add_span(i..i + 1, paint[i]) for every offset i from
\* `from` on that paint gives attrs
RECURSIVE Painted(_, _, _)
PaintedAt(l, paint, from) ==
    IF paint[from] = None THEN l
    ELSE add_span(l, Range(from, from + 1), paint[from][1]).list

Painted(l, paint, from) ==
    IF from >= MaxOff THEN l
    ELSE Painted(PaintedAt(l, paint, from), paint, from + 1)

PaintedLists(ds) ==
    {Painted(AttrsListNew(d), paint, 0) : d \in ds, paint \in Paints}

\* the non-empty ranges with bounds in 0..MaxOff
Ranges == {r \in {Range(s, e) : s \in Offsets, e \in Offsets} : r.start < r.end}

\* --------------------------------------- add_span in both orders, applied

TwiceCall(l, r1, v1, r2, v2) ==
    [fn |-> "add_span twice", list |-> l, r1 |-> r1, v1 |-> v1, r2 |-> r2, v2 |-> v2]

\* the calls on the lists built over the defaults ds
TwiceCalls(ds) ==
    {c \in {TwiceCall(l, r1, v1, r2, v2) :
                l \in PaintedLists(ds), r1 \in Ranges, r2 \in Ranges,
                v1 \in AttrsPool, v2 \in AttrsPool} :
        ~Overlaps(c.r1, c.r2)}

TwiceInit ==
    /\ ListInit({AttrsNew})
    /\ colorCall = NoColorCall
    /\ color = None
    /\ fnCall \in TwiceCalls(DefaultsPool)
    /\ fnResult = None

\* the lists after the two calls in the given order
AddTwo(l, ra, va, rb, vb) == add_span(add_span(l, ra, va).list, rb, vb).list

AddSpanTwice ==
    /\ fnCall.fn = "add_span twice"
    /\ fnResult = None
    /\ fnResult' =
          Some([first |-> AddTwo(fnCall.list, fnCall.r1, fnCall.v1, fnCall.r2, fnCall.v2),
                second |-> AddTwo(fnCall.list, fnCall.r2, fnCall.v2, fnCall.r1, fnCall.v1)])
    /\ UNCHANGED << fnCall, listVars, colorVars >>

TwiceNext == AddSpanTwice

TwiceSpec == TwiceInit /\ [][TwiceNext]_vars

\* ------------------------------------------------------------------ claims

\* the lists in existence: the one operated on and the one just returned
Lists == {list} \cup (IF new = None THEN {} ELSE {new[1]})

\* the last call was add_span / split_off and returned
AddedSpan == last.op = "add_span" /\ last.panic = "none"

AddedNonEmpty == AddedSpan /\ last.range.start < last.range.end

DidSplit == last.op = "split_off" /\ last.panic = "none"

\* the spans of pre below, across and at or above the last split index
Below(index) == {e \in pre.spans : e.end <= index}

Across(index) == {e \in pre.spans : e.start < index /\ index < e.end}

Above(index) == {e \in pre.spans : e.start >= index}

NoOverlap(l) ==
    \A i \in 1 .. Len(spans(l)) : \A j \in 1 .. Len(spans(l)) :
        i # j => ~Overlaps(spans(l)[i].range, spans(l)[j].range)

\* C1: in every reachable list (the list operated on and the list split_off
\* returned), no two entries of spans() have overlapping ranges.
C1_NoOverlap == \A l \in Lists : NoOverlap(l)

\* an add_span strictly inside a stored span of another value, which left
\* that span's two remainders around the new span
C1_Witness ==
    /\ AddedNonEmpty
    /\ Len(spans(list)) >= 3
    /\ \E e \in pre.spans :
          /\ e.attrs # AttrsOwnedNew(last.attrs)
          /\ e.start < last.range.start
          /\ e.end > last.range.end

\* C2: split decomposition law: after new = L.split_off(index), offsets below
\* index read in L as before the split, and offsets i at or above index read
\* in new at i - index as L read at i before the split.
C2_SplitDecomposition ==
    last.op = "split_off" =>
        /\ last.panic = "none"
        /\ new # None
        /\ \A i \in 0 .. MaxOff + 2 :
              IF i < last.index
              THEN get_span(list, i) = get_span(pre, i)
              ELSE get_span(new[1], i - last.index) = get_span(pre, i)

\* a split through a span that differs from the defaults, with a span of
\* another value above it
C2_Witness ==
    /\ DidSplit
    /\ \E e \in Across(last.index) : \E f \in Above(last.index) :
          /\ as_attrs(e.attrs) # defaults(pre)
          /\ f.attrs # e.attrs
    /\ Below(last.index) # {}

\* C3: last-write-wins: after add_span calls only, get_span(i) is the value
\* of the latest add_span whose non-empty range contained i, and the defaults
\* when no add_span covered i.
C3_LastWriteWins ==
    addsOnly =>
        \A i \in Offsets :
            get_span(list, i) =
                IF written[i] = None THEN defaults(list) ELSE written[i][1]

\* an add_span changed what an offset covered by an earlier add_span reads,
\* and some offset was never covered
C3_Witness ==
    /\ addsOnly
    /\ AddedNonEmpty
    /\ \E i \in Offsets :
          /\ RangeMapGet(pre.spans, i) # None
          /\ get_span(pre, i) # get_span(list, i)
    /\ \E i \in Offsets : i < MaxOff /\ written[i] = None
    /\ \E i \in Offsets : written[i] # None /\ written[i][1] # defaults(list)

\* C4: add_span with range.start == range.end returns and leaves spans() and
\* the defaults as they were.
C4_EmptyRangeNoOp ==
    (last.op = "add_span" /\ last.range.start = last.range.end) =>
        /\ last.panic = "none"
        /\ list = pre
        /\ spans(list) = spans(pre)
        /\ defaults(list) = defaults(pre)

\* an empty range inside a stored span of another value
C4_Witness ==
    /\ last.op = "add_span"
    /\ last.range.start = last.range.end
    /\ \E e \in pre.spans :
          /\ e.start < last.range.start /\ last.range.start < e.end
          /\ e.attrs # AttrsOwnedNew(last.attrs)

\* the stored spans of pre that carry the value just added and overlap or
\* touch its range
Merged == {e \in pre.spans : AttrsOwnedEq(e.attrs, AttrsOwnedNew(last.attrs))
                             /\ Touches(e, last.range)}

MergedStart ==
    IF \E e \in Merged : e.start < last.range.start
    THEN (CHOOSE e \in Merged : e.start < last.range.start).start
    ELSE last.range.start

MergedEnd ==
    IF \E e \in Merged : e.end > last.range.end
    THEN (CHOOSE e \in Merged : e.end > last.range.end).end
    ELSE last.range.end

\* C5 as stated: after add_span(range, value) with a non-empty range, spans()
\* holds an entry whose key is exactly range and whose value is value.
C5_OwnEntry ==
    AddedNonEmpty =>
        \E k \in 1 .. Len(spans(list)) :
            /\ spans(list)[k].range = last.range
            /\ spans(list)[k].attrs = AttrsOwnedNew(last.attrs)

\* C5, amended: after add_span(range, value) with a non-empty range, spans()
\* holds an entry with value value whose range is range joined with every
\* stored span of an equal value that overlapped or touched range; the key is
\* exactly range when there was no such span.
C5_OwnOrMergedEntry ==
    AddedNonEmpty =>
        /\ \E k \in 1 .. Len(spans(list)) :
              /\ spans(list)[k].range = Range(MergedStart, MergedEnd)
              /\ spans(list)[k].attrs = AttrsOwnedNew(last.attrs)
        /\ Merged = {} =>
              \E k \in 1 .. Len(spans(list)) :
                  /\ spans(list)[k].range = last.range
                  /\ spans(list)[k].attrs = AttrsOwnedNew(last.attrs)

\* an add_span between two touching spans of an equal value, which joined
\* the three
C5_Witness ==
    /\ AddedNonEmpty
    /\ MergedStart < last.range.start
    /\ MergedEnd > last.range.end
    /\ \E e \in pre.spans : Overlaps(e, last.range) /\ e \notin Merged

\* C6: split_off(index) keeps in self the spans ending at or below index,
\* moves the spans starting at or above index to the new list shifted by
\* index, cuts a span across index into [s, index) in self and
\* [0, e - index) in the new list, and neither list holds another span.
C6_ThreeCaseRule ==
    last.op = "split_off" =>
        /\ last.panic = "none"
        /\ new # None
        /\ list.spans =
              Below(last.index)
              \cup {Entry(Range(e.start, last.index), e.attrs) :
                       e \in Across(last.index)}
        /\ new[1].spans =
              {Entry(Range(e.start - last.index, e.end - last.index), e.attrs) :
                  e \in Above(last.index)}
              \cup {Entry(Range(0, e.end - last.index), e.attrs) :
                       e \in Across(last.index)}

\* a split with a span below, a span across and a span above the index
C6_Witness ==
    /\ DidSplit
    /\ Below(last.index) # {}
    /\ Across(last.index) # {}
    /\ Above(last.index) # {}

\* C7: split_off(0) leaves self with no spans and returns a list whose
\* spans() is self's spans() before the call.
C7_SplitAtZero ==
    (last.op = "split_off" /\ last.index = 0) =>
        /\ last.panic = "none"
        /\ new # None
        /\ spans(list) = << >>
        /\ spans(new[1]) = spans(pre)

\* a split at 0 of a list with a span starting at 0 and another span
C7_Witness ==
    /\ DidSplit
    /\ last.index = 0
    /\ Len(spans(pre)) >= 2
    /\ \E e \in pre.spans : e.start = 0

\* C8: split_off(index) with index at or above the end of every stored span
\* leaves self's spans() unchanged and returns a list with no spans.
C8_SplitAboveAll ==
    (last.op = "split_off" /\ \A e \in pre.spans : e.end <= last.index) =>
        /\ last.panic = "none"
        /\ new # None
        /\ spans(list) = spans(pre)
        /\ spans(new[1]) = << >>

\* a split at exactly the end of the last of two stored spans
C8_Witness ==
    /\ DidSplit
    /\ Len(spans(pre)) >= 2
    /\ \A e \in pre.spans : e.end <= last.index
    /\ \E e \in pre.spans : e.end = last.index

\* C9: every entry of spans(), in every reachable list, has start < end.
C9_NoZeroLength ==
    \A l \in Lists : \A k \in 1 .. Len(spans(l)) :
        spans(l)[k].range.start < spans(l)[k].range.end

\* a split one offset inside a span, leaving remainders in both lists
C9_Witness ==
    /\ DidSplit
    /\ \E e \in Across(last.index) :
          e.start + 1 = last.index \/ last.index + 1 = e.end
    /\ list.spans # {}
    /\ new[1].spans # {}

\* the bits lo .. lo + 15 of a u32, as a number
Half(w, lo) ==
    U32AsU8(Shr(w, lo)) + 256 * U32AsU8(Shr(w, lo + 8))

\* C10: Color::rgba(r, g, b, a) reads back r, g, b, a and packs a in the
\* highest byte, then r, g, and b in the lowest; Color::rgb(r, g, b) equals
\* Color::rgba(r, g, b, 255).
C10_ColorRoundTrip ==
    color # None =>
        /\ colorCall.fn = "rgba" =>
              /\ color_r(color[1]) = colorCall.r
              /\ color_g(color[1]) = colorCall.g
              /\ color_b(color[1]) = colorCall.b
              /\ color_a(color[1]) = colorCall.a
              /\ Half(color[1], 16) = colorCall.a * 256 + colorCall.r
              /\ Half(color[1], 0) = colorCall.g * 256 + colorCall.b
        /\ colorCall.fn = "rgb" =>
              /\ color[1] = rgba(colorCall.r, colorCall.g, colorCall.b, 255)
              /\ color_r(color[1]) = colorCall.r
              /\ color_g(color[1]) = colorCall.g
              /\ color_b(color[1]) = colorCall.b
              /\ color_a(color[1]) = 255

\* rgba was applied to four different channel values, none of them 0
C10_Witness ==
    /\ color # None
    /\ colorCall.fn = "rgba"
    /\ Cardinality({colorCall.r, colorCall.g, colorCall.b, colorCall.a}) = 4
    /\ 0 \notin {colorCall.r, colorCall.g, colorCall.b, colorCall.a}

\* C11: add_span(range, v) with a non-empty range returns, reads v at every
\* offset inside range, reads as before at every offset outside range, and
\* leaves the defaults unchanged.
C11_AddSpanFrame ==
    (last.op = "add_span" /\ last.range.start < last.range.end) =>
        /\ last.panic = "none"
        /\ defaults(list) = defaults(pre)
        /\ \A i \in 0 .. MaxOff + 1 :
              IF last.range.start <= i /\ i < last.range.end
              THEN get_span(list, i) = last.attrs
              ELSE get_span(list, i) = get_span(pre, i)

\* an add_span over a part of a stored span that differs from the new value
\* and from the defaults
C11_Witness ==
    /\ AddedNonEmpty
    /\ \E e \in pre.spans :
          /\ Overlaps(e, last.range)
          /\ e.start < last.range.start \/ e.end > last.range.end
          /\ e.attrs # AttrsOwnedNew(last.attrs)
          /\ as_attrs(e.attrs) # defaults(pre)

\* C12: clear_spans() leaves spans() empty and the defaults unchanged, so
\* that get_span(i) is the defaults at every offset.
C12_ClearSpans ==
    last.op = "clear_spans" =>
        /\ last.panic = "none"
        /\ spans(list) = << >>
        /\ defaults(list) = defaults(pre)
        /\ \A i \in 0 .. MaxOff + 1 : get_span(list, i) = defaults(pre)

\* a clear_spans of a list with a span that differs from defaults that are
\* not those of Attrs::new()
C12_Witness ==
    /\ last.op = "clear_spans"
    /\ defaults(pre) # AttrsNew
    /\ \E i \in Offsets : get_span(pre, i) # defaults(pre)

\* C13: in every reachable list, spans() lists the entries in strictly
\* ascending order of range start.
C13_SpansAscending ==
    \A l \in Lists : \A k \in 1 .. Len(spans(l)) - 1 :
        spans(l)[k].range.start < spans(l)[k + 1].range.start

\* a split that left two spans or more in each of the two lists
C13_Witness ==
    /\ DidSplit
    /\ Len(spans(list)) >= 2
    /\ Len(spans(new[1])) >= 2

\* C14: split_off gives the returned list the defaults of self and leaves
\* the defaults of self unchanged; no call changes the defaults of a list.
C14_DefaultsKept ==
    /\ list.defaults = pre.defaults
    /\ defaults(list) = defaults(pre)
    /\ new # None =>
          /\ new[1].defaults = pre.defaults
          /\ defaults(new[1]) = defaults(pre)

\* a split, moving a span, of a list whose defaults are not those of
\* Attrs::new()
C14_Witness ==
    /\ DidSplit
    /\ defaults(pre) # AttrsNew
    /\ new[1].spans # {}

\* C17: split_off always returns: on every reachable list and for every
\* index, each collected key is found again by its start ("attrs span not
\* found" is never hit), no subtraction of index underflows, and no insert
\* or remove is handed an empty range.
C17_SplitCompletes ==
    last.op = "split_off" =>
        /\ last.panic = "none"
        /\ new # None

\* a split that collected three keys or more, the first of them to resize
C17_Witness ==
    /\ DidSplit
    /\ Across(last.index) # {}
    /\ Cardinality(Above(last.index)) >= 2

\* C18: in every reachable list, no two entries of spans() touch
\* (first.end == second.start) and carry equal attribute values.
C18_Coalesced ==
    \A l \in Lists :
        \A i \in 1 .. Len(spans(l)) : \A j \in 1 .. Len(spans(l)) :
            spans(l)[i].range.end = spans(l)[j].range.start =>
                ~AttrsOwnedEq(spans(l)[i].attrs, spans(l)[j].attrs)

\* an add_span that started exactly where a stored span of an equal value
\* ended, next to a span of another value
C18_Witness ==
    /\ AddedNonEmpty
    /\ \E e \in pre.spans :
          /\ e.end = last.range.start
          /\ AttrsOwnedEq(e.attrs, AttrsOwnedNew(last.attrs))
    /\ Len(spans(list)) >= 2

\* the attribute set x with another color and another metadata
Recoloured(x, c, m) == [x EXCEPT !.color_opt = c, !.metadata = m]

\* C15: compatible(a, b) is true exactly when family, stretch, style and
\* weight are equal and the scaling factors have the same bits (are equal
\* under the total order); changing only the color or the metadata of either
\* argument never changes the result.
C15_Compatible ==
    (fnCall.fn = "compatible" /\ fnResult # None) =>
        /\ fnResult[1] =
              (/\ fnCall.self.family = fnCall.other.family
               /\ fnCall.self.stretch = fnCall.other.stretch
               /\ fnCall.self.style = fnCall.other.style
               /\ fnCall.self.weight = fnCall.other.weight
               /\ fnCall.self.scaling = fnCall.other.scaling)
        /\ \A c \in {None, Some(rgb(255, 0, 0))} : \A m \in 0 .. MaxMeta :
              /\ compatible(Recoloured(fnCall.self, c, m), fnCall.other) = fnResult[1]
              /\ compatible(fnCall.self, Recoloured(fnCall.other, c, m)) = fnResult[1]

\* compatible returned true for two attribute sets of different color and
\* metadata whose scaling factors are the same NaN
C15_Witness ==
    /\ fnCall.fn = "compatible"
    /\ fnResult = Some(TRUE)
    /\ fnCall.self.color_opt # fnCall.other.color_opt
    /\ fnCall.self.metadata # fnCall.other.metadata
    /\ fnCall.self.scaling = 2143289344
    /\ fnCall.self.family.kind = "Name"

\* C19: add_span calls on two non-empty ranges that do not overlap commute:
\* either order leaves the same defaults and the same spans().
C19_AddSpanCommutes ==
    (fnCall.fn = "add_span twice" /\ fnResult # None) =>
        /\ fnResult[1].first = fnResult[1].second
        /\ spans(fnResult[1].first) = spans(fnResult[1].second)
        /\ defaults(fnResult[1].first) = defaults(fnResult[1].second)

\* two touching ranges of an equal value, added over a stored span of
\* another value that reaches beyond both
C19_Witness ==
    /\ fnCall.fn = "add_span twice"
    /\ fnResult # None
    /\ fnCall.r1.end = fnCall.r2.start
    /\ fnCall.v1 = fnCall.v2
    /\ \E e \in fnCall.list.spans :
          /\ e.start < fnCall.r1.start
          /\ e.end > fnCall.r2.end
          /\ e.attrs # AttrsOwnedNew(fnCall.v1)
    /\ Len(spans(fnResult[1].first)) = 3

====
